---- MODULE Spec2Model ----
(***************************************************************************)
(* F1 predictor: the offline feature builder (backend/build_features.py),  *)
(* the live feature builder and the prediction service (backend/app.py)    *)
(* and the results fetcher script (backend/fetch_data.py).                 *)
(*                                                                         *)
(* Numbers that pandas holds as floats (means, ratios) are exact rationals *)
(* here: a pair <<n, d>> in lowest terms, d > 0.  The missing value NaN is *)
(* the pair <<0, 0>>.                                                      *)
(***************************************************************************)
EXTENDS Integers, Sequences, FiniteSets, TLC

VARIABLES
    results,    \* the upstream results table: a sequence of result rows, in the API's order
    built,      \* what the last run of a feature builder was given and produced
    api,        \* the upstream API's next-race, qualifying and standings documents
    req,        \* the request the prediction service has just handled
    reply,      \* what the handler did: its response, its fetches, its model calls
    script      \* backend/fetch_data.py's main loop

vars == <<results, built, api, req, reply, script>>

----------------------------------------------------------------------------
(* Bounds of the model. *)

MaxRows == 2        \* result rows the upstream table holds at most
MaxGridRows == 1    \* entries handed to the live feature builder at most
MaxEntries == 2     \* entries of a request's payload at most
NumYears == 4       \* seasons the fetcher script iterates over

(* The inputs. *)
Seasons == {2023, 2024}
Drivers == {"A", "B"}
Constructors == {"T1", "T2"}
Outcomes ==
    { [position |-> 1,  grid |-> 2, points |-> 25, status |-> "Finished"],
      [position |-> 2,  grid |-> 1, points |-> 18, status |-> "+1 Lap"],
      [position |-> 19, grid |-> 3, points |-> 0,  status |-> "Engine"] }

----------------------------------------------------------------------------
(* Exact arithmetic. *)

NaN == <<0, 0>>
Zero == <<0, 1>>

RECURSIVE GCD(_, _)
GCD(a, b) == IF b = 0 THEN a ELSE GCD(b, a % b)

Rat(n, d) == IF d = 0 THEN NaN ELSE LET g == GCD(n, d) IN <<n \div g, d \div g>>

Int2Rat(n) == <<n, 1>>

Min(a, b) == IF a <= b THEN a ELSE b

----------------------------------------------------------------------------
(* status -> dnf.  A status text is the sequence of its characters. *)

Chars(status) ==
    CASE status = "Finished" -> <<"F", "i", "n", "i", "s", "h", "e", "d">>
      [] status = "+1 Lap"   -> <<"+", "1", " ", "L", "a", "p">>
      [] status = "Engine"   -> <<"E", "n", "g", "i", "n", "e">>
      [] OTHER               -> <<>>

Lower(c) ==
    CASE c = "F" -> "f" [] c = "L" -> "l" [] c = "E" -> "e" [] OTHER -> c

LowerSeq(s) == [i \in 1..Len(s) |-> Lower(s[i])]

Contains(s, sub) ==
    \E i \in 1..(Len(s) - Len(sub) + 1) :
        \A k \in 1..Len(sub) : s[i + k - 1] = sub[k]

status_to_dnf(status) ==
    LET s == LowerSeq(Chars(status))
        finished == \/ Contains(s, <<"f", "i", "n", "i", "s", "h">>)
                    \/ Contains(s, <<"+">>)
                    \/ Contains(s, <<"l", "a", "p">>)
    IN  IF finished THEN 0 ELSE 1

----------------------------------------------------------------------------
(* The grouped statistics both builders compute on a frame h, a sequence   *)
(* of result rows sorted by (season, round).  by is the grouping column    *)
(* beside season: "driver" or "constructor".                               *)

RowLeq(a, b) == a.season < b.season \/ (a.season = b.season /\ a.round <= b.round)

RECURSIVE InsertRow(_, _)
InsertRow(sorted, r) ==
    IF sorted = <<>> THEN <<r>>
    ELSE IF RowLeq(Head(sorted), r) THEN <<Head(sorted)>> \o InsertRow(Tail(sorted), r)
    ELSE <<r>> \o sorted

RECURSIVE SortFrom(_, _, _)
SortFrom(rows, k, acc) ==
    IF k > Len(rows) THEN acc ELSE SortFrom(rows, k + 1, InsertRow(acc, rows[k]))

(* df.sort_values(["season", "round"]): several keys, a stable sort. *)
sort_values(rows) == SortFrom(rows, 1, <<>>)

Val(r, col) == IF col = "dnf" THEN status_to_dnf(r.status) ELSE r[col]

RECURSIVE GroupUpTo(_, _, _, _)
(* The indexes j in k..i-1 of the rows of row i's group, in the frame's order. *)
GroupUpTo(h, i, by, k) ==
    IF k >= i THEN <<>>
    ELSE (IF h[k].season = h[i].season /\ h[k][by] = h[i][by] THEN <<k>> ELSE <<>>)
         \o GroupUpTo(h, i, by, k + 1)

RECURSIVE SumCol(_, _, _)
SumCol(h, idx, col) ==
    IF idx = <<>> THEN 0 ELSE Val(h[Head(idx)], col) + SumCol(h, Tail(idx), col)

(* g[col].cumsum() at row i: the group's rows up to and including row i. *)
GroupCumsum(h, i, by, col) == SumCol(h, GroupUpTo(h, i, by, 1) \o <<i>>, col)

pts_to_date(h, i, by) == GroupCumsum(h, i, by, "points") - h[i].points

Window == 5

(* s.shift(1).rolling(5, min_periods=1).mean() at row i of its group: the  *)
(* mean of the values of the (up to) 5 rows of the group just before row   *)
(* i, in the frame's order; NaN when the group has no row before row i.    *)
shift_rolling_mean(h, i, by, col) ==
    LET prior == GroupUpTo(h, i, by, 1)
        n == Len(prior)
        w == SubSeq(prior, n - Min(n, Window) + 1, n)
    IN  IF n = 0 THEN NaN ELSE Rat(SumCol(h, w, col), Len(w))

(* fillna left out: a missing value stays missing. *)
fillna_left_out(x) == x

fillna(x) == IF x = NaN THEN Zero ELSE x

MaxRound(h, season) ==
    LET rs == {h[i].round : i \in {j \in 1..Len(h) : h[j].season = season}}
    IN  IF rs = {} THEN 0 ELSE CHOOSE m \in rs : \A r \in rs : r <= m

----------------------------------------------------------------------------
(* backend/build_features.py: the offline builder, from the results CSV to *)
(* the rows of features.csv (index-aligned with the sorted frame).         *)

build_features(csv) ==
    LET df == sort_values(csv)
    IN  [i \in 1..Len(df) |->
            [ grid            |-> df[i].grid,
              drv_pts_to_date |-> fillna(Int2Rat(pts_to_date(df, i, "driver"))),
              drv_roll_pts_5  |-> fillna(shift_rolling_mean(df, i, "driver", "points")),
              drv_roll_pos_5  |-> fillna(shift_rolling_mean(df, i, "driver", "position")),
              drv_roll_dnf_5  |-> fillna(shift_rolling_mean(df, i, "driver", "dnf")),
              con_pts_to_date |-> fillna(Int2Rat(pts_to_date(df, i, "constructor"))),
              con_roll_pts_5  |-> fillna(shift_rolling_mean(df, i, "constructor", "points")),
              round_norm      |-> fillna(Rat(df[i].round, MaxRound(df, df[i].season))),
              win             |-> IF df[i].position = 1 THEN 1 ELSE 0,
              season          |-> df[i].season ] ]

----------------------------------------------------------------------------
(* backend/app.py: the live builder. *)

(* The rows the API serves for the season, up to last_round_inclusive. *)
fetch_current_season_results_until_round(table, season, last_round_inclusive) ==
    SelectSeq(table, LAMBDA r : r.season = season /\ ~(r.round > last_round_inclusive))

(* hist.sort_values("round"): one key, pandas' default quicksort, which is *)
(* not stable: any order of the rows that is sorted by round.              *)
RoundOrders(h) ==
    {p \in Permutations(1..Len(h)) :
        \A a, b \in 1..Len(h) : a < b => h[p[a]].round <= h[p[b]].round}

(* groupby(by).tail(1) on the frame in order p: the index of the group's   *)
(* last row, 0 when no row has the key.                                    *)
LastRow(h, p, by, key) ==
    LET ms == {m \in 1..Len(h) : h[p[m]][by] = key}
    IN  IF ms = {} THEN 0 ELSE p[CHOOSE m \in ms : \A x \in ms : x <= m]

(* A column of the left merge: the statistic of the matched row, or NaN. *)
Merged(i, value) == IF i = 0 THEN NaN ELSE value

ColdStartRow(season, g) ==
    [ grid            |-> g.grid,
      drv_pts_to_date |-> Zero,
      drv_roll_pts_5  |-> Zero,
      drv_roll_pos_5  |-> Zero,
      drv_roll_dnf_5  |-> Zero,
      con_pts_to_date |-> Zero,
      con_roll_pts_5  |-> Zero,
      round_norm      |-> Zero,
      driver          |-> g.driver,
      constructor     |-> g.constructor,
      season          |-> season ]

LiveRow(season, next_round, g, hist, p) ==
    LET d == LastRow(hist, p, "driver", g.driver)
        t == LastRow(hist, p, "constructor", g.constructor)
        max_round == MaxRound(hist, season)
    IN  [ grid            |-> g.grid,
          drv_pts_to_date |-> fillna(Merged(d, Int2Rat(pts_to_date(hist, d, "driver")))),
          drv_roll_pts_5  |-> fillna(Merged(d, shift_rolling_mean(hist, d, "driver", "points"))),
          drv_roll_pos_5  |-> fillna(Merged(d, shift_rolling_mean(hist, d, "driver", "position"))),
          drv_roll_dnf_5  |-> fillna(Merged(d, shift_rolling_mean(hist, d, "driver", "dnf"))),
          con_pts_to_date |-> fillna(Merged(t, Int2Rat(pts_to_date(hist, t, "constructor")))),
          con_roll_pts_5  |-> fillna(Merged(t, shift_rolling_mean(hist, t, "constructor", "points"))),
          round_norm      |-> IF max_round > 0 THEN Rat(next_round, max_round) ELSE Zero,
          driver          |-> g.driver,
          constructor     |-> g.constructor,
          season          |-> season ]

(* The history the live builder works on. *)
LiveHist(table, season, next_round) ==
    sort_values(fetch_current_season_results_until_round(table, season, next_round - 1))

(* build_live_features_for_next_race, on the order p that                  *)
(* hist.sort_values("round") produced.                                     *)
build_live_features_for_next_race(table, season, next_round, grid_rows, p) ==
    LET hist == LiveHist(table, season, next_round)
    IN  IF hist = <<>>
        THEN [k \in 1..Len(grid_rows) |-> ColdStartRow(season, grid_rows[k])]
        ELSE [k \in 1..Len(grid_rows) |-> LiveRow(season, next_round, grid_rows[k], hist, p)]

----------------------------------------------------------------------------
(* backend/app.py: the helpers of the prediction service.                  *)
(* api.next, api.qualifying: the documents' Races lists;                   *)
(* api.driverStandings: the document's StandingsLists.                     *)

NoMeta == [season |-> 0, round |-> 0, raceName |-> ""]

(* A dict of defaults, not {}, when the API lists no upcoming race. *)
fetch_next_race_metadata_defaults(a) ==
    IF a.next = <<>> THEN [season |-> 0, round |-> 0, raceName |-> "TBD"]
    ELSE [season |-> a.next[1].season, round |-> a.next[1].round,
          raceName |-> a.next[1].raceName]

(* fetch_next_race_metadata: {} when the API lists no upcoming race. *)
fetch_next_race_metadata(a) ==
    IF a.next = <<>> THEN NoMeta
    ELSE [season |-> a.next[1].season, round |-> a.next[1].round,
          raceName |-> a.next[1].raceName]

(* Without qualifying results, the standings' order taken as the grid. *)
infer_grid_or_standings(a) ==
    IF a.qualifying # <<>> /\ a.qualifying[1].QualifyingResults # <<>>
    THEN [k \in 1..Len(a.qualifying[1].QualifyingResults) |->
            [driver |-> a.qualifying[1].QualifyingResults[k].driver,
             constructor |-> a.qualifying[1].QualifyingResults[k].constructor,
             grid |-> a.qualifying[1].QualifyingResults[k].position]]
    ELSE IF a.driverStandings = <<>> THEN <<>>
    ELSE [k \in 1..Len(a.driverStandings[1].DriverStandings) |->
            [driver |-> a.driverStandings[1].DriverStandings[k].driver,
             constructor |-> a.driverStandings[1].DriverStandings[k].constructor,
             grid |-> a.driverStandings[1].DriverStandings[k].position]]

(* infer_grid_for_next_race: grid = qualifying position. *)
infer_grid_for_next_race(a) ==
    IF a.qualifying = <<>> THEN <<>>
    ELSE LET quali == a.qualifying[1].QualifyingResults
         IN  [k \in 1..Len(quali) |->
                [driver |-> quali[k].driver, constructor |-> quali[k].constructor,
                 grid |-> quali[k].position]]

(* fetch_current_driver_standings: the fallback roster. *)
fetch_current_driver_standings(a) ==
    IF a.driverStandings = <<>> THEN <<>>
    ELSE LET standings == a.driverStandings[1].DriverStandings
         IN  [k \in 1..Len(standings) |->
                [driver |-> standings[k].driver, constructor |-> standings[k].constructor,
                 standing_position |-> standings[k].position]]

(* m[name] = {...} over a list: a later row of a name replaces an earlier. *)
MapOf(rows) ==
    [d \in {rows[k].driver : k \in 1..Len(rows)} |->
        rows[CHOOSE k \in 1..Len(rows) :
                /\ rows[k].driver = d
                /\ \A j \in 1..Len(rows) : rows[j].driver = d => j <= k].constructor]

EmptyMap == MapOf(<<>>)

(* fetch_next_entry_map: the canonical driver -> constructor map and the   *)
(* fetches it made.  down is the set of documents whose fetch fails.       *)
fetch_next_entry_map(a, down) ==
    LET q == [url |-> "qualifying", ok |-> "qualifying" \notin down]
        s == [url |-> "driverStandings", ok |-> "driverStandings" \notin down]
    IN  IF q.ok /\ a.qualifying # <<>> /\ a.qualifying[1].QualifyingResults # <<>>
        THEN [canon |-> MapOf(a.qualifying[1].QualifyingResults), calls |-> <<q>>]
        ELSE IF s.ok /\ a.driverStandings # <<>>
        THEN [canon |-> MapOf(a.driverStandings[1].DriverStandings), calls |-> <<q, s>>]
        ELSE [canon |-> EmptyMap, calls |-> <<q, s>>]

----------------------------------------------------------------------------
(* The payload of POST /api/predict-next-race-with-grid.  A JSON value is  *)
(* [t, n, d, s]: its type, the number n/d it holds, the text it holds.     *)

JInt(n) == [t |-> "int", n |-> n, d |-> 1, s |-> ""]
JFloat(n, d) == [t |-> "float", n |-> n, d |-> d, s |-> ""]
JBool(b) == [t |-> "bool", n |-> IF b THEN 1 ELSE 0, d |-> 1, s |-> ""]
JStr(s) == [t |-> "str", n |-> 0, d |-> 1, s |-> s]
JNull == [t |-> "null", n |-> 0, d |-> 1, s |-> ""]

Digits == {"0", "1", "2", "3", "4", "5", "6", "7", "8", "9"}

(* int(x): [ok, v].  A float is truncated, a bool is 0 or 1, a text must   *)
(* be a number's digits, None raises.                                      *)
py_int(x) ==
    CASE x.t = "int"   -> [ok |-> TRUE, v |-> x.n]
      [] x.t = "float" -> [ok |-> TRUE, v |-> x.n \div x.d]
      [] x.t = "bool"  -> [ok |-> TRUE, v |-> x.n]
      [] x.t = "str"   -> IF x.s \in Digits
                          THEN [ok |-> TRUE, v |-> CHOOSE n \in 0..9 : ToString(n) = x.s]
                          ELSE [ok |-> FALSE, v |-> 0]
      [] OTHER         -> [ok |-> FALSE, v |-> 0]

(* str(row.get("driver", "")).strip() *)
strip(name) ==
    CASE name = " B" -> "B"
      [] name = "A " -> "A"
      [] OTHER       -> name

(* The row's own constructor, when it has one. *)
EntryTeam_from_payload(row, canon, drv) ==
    IF row.constructor # "" THEN row.constructor ELSE canon[drv]

(* team = canon[drv]["constructor"] or "": the row's own constructor is    *)
(* not read.                                                               *)
EntryTeam(row, canon, drv) == canon[drv]

RECURSIVE ValidateFrom_first_error_only(_, _, _, _)
(* The loop left at its first error (break for continue). *)
ValidateFrom_first_error_only(user_rows, canon, i, acc) ==
    IF i > Len(user_rows) THEN acc
    ELSE LET row == user_rows[i]
             drv == strip(row.driver)
             grid == py_int(row.grid)
         IN  IF drv \notin DOMAIN canon
             THEN [acc EXCEPT !.errors = Append(@,
                        [index |-> i - 1, driver |-> drv, issue |-> "unknown_driver"])]
             ELSE IF ~grid.ok
             THEN [acc EXCEPT !.errors = Append(@,
                        [index |-> i - 1, driver |-> drv, issue |-> "invalid_grid"])]
             ELSE ValidateFrom_first_error_only(user_rows, canon, i + 1,
                    [acc EXCEPT !.validated = Append(@,
                        [driver |-> drv, constructor |-> canon[drv], grid |-> grid.v])])

RECURSIVE ValidateFrom(_, _, _, _)
(* The validation loop from entry i on: [validated, errors]. *)
ValidateFrom(user_rows, canon, i, acc) ==
    IF i > Len(user_rows) THEN acc
    ELSE LET row == user_rows[i]
             drv == strip(row.driver)
             grid == py_int(row.grid)
         IN  IF drv \notin DOMAIN canon
             THEN ValidateFrom(user_rows, canon, i + 1,
                    [acc EXCEPT !.errors = Append(@,
                        [index |-> i - 1, driver |-> drv, issue |-> "unknown_driver"])])
             ELSE IF ~grid.ok
             THEN ValidateFrom(user_rows, canon, i + 1,
                    [acc EXCEPT !.errors = Append(@,
                        [index |-> i - 1, driver |-> drv, issue |-> "invalid_grid"])])
             ELSE ValidateFrom(user_rows, canon, i + 1,
                    [acc EXCEPT !.validated = Append(@,
                        [driver |-> drv, constructor |-> EntryTeam(row, canon, drv),
                         grid |-> grid.v])])

Validate(user_rows, canon) ==
    ValidateFrom(user_rows, canon, 1, [validated |-> <<>>, errors |-> <<>>])

----------------------------------------------------------------------------
(* The model's output and the ranking. *)

(* feats[feature_order] *)
FeatureVector(f) ==
    << f.grid, f.drv_pts_to_date, f.drv_roll_pts_5, f.drv_roll_pos_5, f.drv_roll_dnf_5,
       f.con_pts_to_date, f.con_roll_pts_5, f.round_norm >>

(* Probabilities the model may give, in ten-thousandths. *)
RawProbs == {1231, 1234, 8000}

(* model.predict_proba(X)[:, 1]: the model is a function of the feature    *)
(* vector and otherwise unknown.                                           *)
predict_proba(feats) ==
    {pr \in [1..Len(feats) -> RawProbs] :
        \A i, j \in 1..Len(feats) :
            FeatureVector(feats[i]) = FeatureVector(feats[j]) => pr[i] = pr[j]}

(* np.round(p, 3), in thousandths: half to even. *)
round3(p) ==
    LET q == p \div 10
        r == p % 10
    IN  IF r < 5 THEN q
        ELSE IF r > 5 THEN q + 1
        ELSE IF q % 2 = 0 THEN q ELSE q + 1

(* ascending=True *)
sort_values_ascending(out) ==
    {[m \in 1..Len(out) |-> out[q[m]]] :
        q \in {x \in Permutations(1..Len(out)) :
                 \A a, b \in 1..Len(out) :
                    a < b => out[x[a]].win_probability <= out[x[b]].win_probability}}

(* out.sort_values("win_probability", ascending=False): one key, the       *)
(* default quicksort, which is not stable: any order of the rows that is   *)
(* descending in the key.                                                  *)
sort_values_descending(out) ==
    {[m \in 1..Len(out) |-> out[q[m]]] :
        q \in {x \in Permutations(1..Len(out)) :
                 \A a, b \in 1..Len(out) :
                    a < b => out[x[a]].win_probability >= out[x[b]].win_probability}}

(* The ranked predictions a handler can return for the entries grid_rows:  *)
(* lines 287-294 and 346-353.                                              *)
Ranked(table, meta, grid_rows) ==
    LET hist == LiveHist(table, meta.season, meta.round)
    IN  UNION { UNION { sort_values_descending(
                          [k \in 1..Len(grid_rows) |->
                             [driver |-> feats[k].driver,
                              constructor |-> feats[k].constructor,
                              grid |-> grid_rows[k].grid,
                              win_probability |-> round3(pr[k])]]) :
                        pr \in predict_proba(feats) } :
                feats \in { build_live_features_for_next_race(
                               table, meta.season, meta.round, grid_rows, p) :
                            p \in RoundOrders(hist) } }

----------------------------------------------------------------------------
(* The request handlers.  A handler's outcome is [resp, calls,             *)
(* model_calls]: the response (keys: the keys of the returned dict;        *)
(* raised: the handler ended with an uncaught exception), the fetches it   *)
(* made in order, and how often it called the model.  down is the set of   *)
(* documents whose fetch fails (HTTP error status, connection error,       *)
(* timeout) during the request.                                            *)

NoResp ==
    [ raised |-> FALSE, keys |-> {}, error |-> "", message |-> "", race |-> NoMeta,
      predictions |-> <<>>, errors |-> <<>>, drivers |-> <<>> ]

Raised == [NoResp EXCEPT !.raised = TRUE]

NoUpcomingRace == [NoResp EXCEPT !.keys = {"error"}, !.error = "No upcoming race found"]

QualifyingMessage ==
    "Qualifying not available yet; use /api/next-roster and POST /api/predict-next-race-with-grid"

Call(url, down) == [url |-> url, ok |-> url \notin down]

Outcome(resp, calls, model_calls) ==
    [resp |-> resp, calls |-> calls, model_calls |-> model_calls]

Predicted(meta, ranked) ==
    [NoResp EXCEPT !.keys = {"race", "predictions"}, !.race = meta, !.predictions = ranked]

(* GET /api/next-roster *)
next_roster(a, down) ==
    LET c1 == Call("next", down)
        meta == fetch_next_race_metadata(a)
        c2 == Call("driverStandings", down)
    IN  IF ~c1.ok THEN {Outcome(Raised, <<c1>>, 0)}
        ELSE IF meta = NoMeta
        THEN {Outcome([NoUpcomingRace EXCEPT !.keys = {"error", "drivers"}], <<c1>>, 0)}
        ELSE IF ~c2.ok THEN {Outcome(Raised, <<c1, c2>>, 0)}
        ELSE {Outcome([NoResp EXCEPT !.keys = {"race", "drivers"}, !.race = meta,
                                     !.drivers = fetch_current_driver_standings(a)],
                      <<c1, c2>>, 0)}

(* GET /api/predict-next-race *)
predict_next_race(a, table, down) ==
    LET c1 == Call("next", down)
        meta == fetch_next_race_metadata(a)
        c2 == Call("qualifying", down)
        grid == infer_grid_for_next_race(a)
        c3 == Call("results", down)
    IN  IF ~c1.ok THEN {Outcome(Raised, <<c1>>, 0)}
        ELSE IF meta = NoMeta THEN {Outcome(NoUpcomingRace, <<c1>>, 0)}
        ELSE IF ~c2.ok THEN {Outcome(Raised, <<c1, c2>>, 0)}
        ELSE IF grid = <<>>
        THEN {Outcome([NoResp EXCEPT !.keys = {"race", "message", "predictions"},
                                     !.race = meta, !.message = QualifyingMessage],
                      <<c1, c2>>, 0)}
        ELSE IF ~c3.ok THEN {Outcome(Raised, <<c1, c2, c3>>, 0)}
        ELSE {Outcome(Predicted(meta, ranked), <<c1, c2, c3>>, 1) :
                ranked \in Ranked(table, meta, grid)}

(* POST /api/predict-next-race-with-grid; user_rows is payload.get("grid", []). *)
predict_next_race_with_grid(a, table, user_rows, down) ==
    LET c1 == Call("next", down)
        meta == fetch_next_race_metadata(a)
        entry == fetch_next_entry_map(a, down)
        v == Validate(user_rows, entry.canon)
        c3 == Call("results", down)
    IN  IF ~c1.ok THEN {Outcome(Raised, <<c1>>, 0)}
        ELSE IF meta = NoMeta THEN {Outcome(NoUpcomingRace, <<c1>>, 0)}
        ELSE IF user_rows = <<>>
        THEN {Outcome([NoResp EXCEPT !.keys = {"error", "required_format"},
                                     !.error = "Missing grid"], <<c1>>, 0)}
        ELSE IF DOMAIN entry.canon = {}
        THEN {Outcome([NoResp EXCEPT !.keys = {"error"},
                                     !.error = "Could not fetch roster; try again later"],
                      <<c1>> \o entry.calls, 0)}
        ELSE IF v.errors # <<>>
        THEN {Outcome([NoResp EXCEPT !.keys = {"error", "errors"},
                                     !.error = "validation_failed", !.errors = v.errors],
                      <<c1>> \o entry.calls, 0)}
        ELSE IF ~c3.ok THEN {Outcome(Raised, <<c1>> \o entry.calls \o <<c3>>, 0)}
        ELSE {Outcome(Predicted(meta, ranked), <<c1>> \o entry.calls \o <<c3>>, 1) :
                ranked \in Ranked(table, meta, v.validated)}

----------------------------------------------------------------------------
(* backend/fetch_data.py: the results fetcher script. *)

start_year == 2018

(* range(start_year, current_year + 1) *)
Years == [k \in 1..NumYears |-> start_year + k - 1]

(* What requests.get / raise_for_status can do for a season: serve the     *)
(* season's races ("rows"), serve a season without races ("empty"), or     *)
(* raise.                                                                  *)
FetchOutcomes == {"rows", "empty", "HTTPError", "ConnectionError", "Timeout"}

Raises(outcome) == outcome \in {"HTTPError", "ConnectionError", "Timeout"}

(* except requests.HTTPError *)
Caught(outcome) == outcome = "HTTPError"

InitScript == [y |-> 0, frames |-> <<>>, csv |-> <<>>, written |-> FALSE, log |-> <<>>, pc |-> "loop"]

(* One iteration of "for y in years". *)
LoopBody(st, outcome) ==
    LET y == Years[st.y + 1]
        logged == [st EXCEPT !.log = Append(@, [season |-> y, outcome |-> outcome])]
    IN  IF Raises(outcome)
        THEN IF Caught(outcome)
             THEN [logged EXCEPT !.y = @ + 1]
             ELSE [logged EXCEPT !.pc = "crashed"]
        ELSE IF outcome = "empty"
        THEN [logged EXCEPT !.y = @ + 1]
        ELSE [logged EXCEPT !.y = @ + 1, !.frames = Append(@, y)]

(* After the loop: pd.concat(frames).to_csv(...) when frames is not empty. *)
SaveFrames(st) ==
    IF st.frames # <<>>
    THEN [st EXCEPT !.csv = st.frames, !.written = TRUE, !.pc = "done"]
    ELSE [st EXCEPT !.pc = "done"]

NoBuild == [kind |-> "none"]
NoApi == [next |-> <<>>, qualifying |-> <<>>, driverStandings |-> <<>>]
NoReq == [handler |-> "", user_rows |-> <<>>]
NoReply == Outcome(NoResp, <<>>, 0)

InitFetcher ==
    /\ script = InitScript
    /\ results = <<>>
    /\ built = NoBuild
    /\ api = NoApi
    /\ req = NoReq
    /\ reply = NoReply

FetchSeason ==
    /\ script.pc = "loop"
    /\ script.y < NumYears
    /\ \E outcome \in FetchOutcomes : script' = LoopBody(script, outcome)
    /\ UNCHANGED <<results, built, api, req, reply>>

Save ==
    /\ script.pc = "loop"
    /\ script.y = NumYears
    /\ script' = SaveFrames(script)
    /\ UNCHANGED <<results, built, api, req, reply>>

NextFetcher == FetchSeason \/ Save

SpecFetcher == InitFetcher /\ [][NextFetcher]_vars

----------------------------------------------------------------------------
(* The feature builders at work on a growing results table. *)

GridRowLists ==
    UNION { [1..n -> [driver : Drivers, constructor : Constructors, grid : {1}]] :
              n \in 1..MaxGridRows }

LastKey(table) ==
    IF table = <<>> THEN <<0, 0>>
    ELSE <<table[Len(table)].season, table[Len(table)].round>>

(* The (season, round) a further result can carry: the API lists seasons   *)
(* and rounds in order, a driver once per round (and a finishing position  *)
(* once per race).                                                         *)
NextKeys(table, driver) ==
    LET s == LastKey(table)[1]
        r == LastKey(table)[2]
        inRound == \E i \in 1..Len(table) :
                      table[i].season = s /\ table[i].round = r /\ table[i].driver = driver
    IN  IF table = <<>> THEN {<<x, 1>> : x \in Seasons}
        ELSE {<<s, r>> : x \in {1} \ {IF inRound THEN 1 ELSE 0}}
             \cup {<<s, r + 1>>}
             \cup {<<x, 1>> : x \in {y \in Seasons : y > s}}

InitFeatures ==
    /\ results = <<>>
    /\ built = NoBuild
    /\ api = NoApi
    /\ req = NoReq
    /\ reply = NoReply
    /\ script = InitScript

(* A race result is published upstream (and lands in the results CSV). *)
RaceResult ==
    /\ built = NoBuild
    /\ Len(results) < MaxRows
    /\ \E d \in Drivers, c \in Constructors, o \in Outcomes :
         \E key \in NextKeys(results, d) :
            /\ \A i \in 1..Len(results) :
                  <<results[i].season, results[i].round>> = key
                      => results[i].position # o.position
            /\ results' = Append(results,
                [ season |-> key[1], round |-> key[2], driver |-> d, constructor |-> c,
                  position |-> o.position, grid |-> o.grid, points |-> o.points,
                  status |-> o.status ])
    /\ UNCHANGED <<built, api, req, reply, script>>

(* backend/build_features.py runs on the results CSV. *)
BuildOffline ==
    /\ built = NoBuild
    /\ built' = [kind |-> "offline", out |-> build_features(results)]
    /\ UNCHANGED <<results, api, req, reply, script>>

(* The season the service asks the live builder for: the current one. *)
CurrentSeasons(table) == IF table = <<>> THEN Seasons ELSE {LastKey(table)[1]}

(* The round the service asks for: the one after the latest round with     *)
(* results, or that round itself (its results are out already).            *)
NextRounds(table, season) ==
    {r \in {MaxRound(table, season), MaxRound(table, season) + 1} : r >= 1}

(* build_live_features_for_next_race runs for a target round. *)
BuildLive ==
    /\ built = NoBuild
    /\ \E season \in CurrentSeasons(results), grid_rows \in GridRowLists :
         \E next_round \in NextRounds(results, season) :
            \E p \in RoundOrders(LiveHist(results, season, next_round)) :
               built' = [ kind |-> "live", season |-> season, next_round |-> next_round,
                          grid_rows |-> grid_rows,
                          out |-> build_live_features_for_next_race(
                                      results, season, next_round, grid_rows, p) ]
    /\ UNCHANGED <<results, api, req, reply, script>>

(* The builder's caller has taken the frame. *)
Finish ==
    /\ built # NoBuild
    /\ built' = NoBuild
    /\ UNCHANGED <<results, api, req, reply, script>>

NextFeatures == RaceResult \/ BuildOffline \/ BuildLive \/ Finish

SpecFeatures == InitFeatures /\ [][NextFeatures]_vars

----------------------------------------------------------------------------
(* The prediction service answering requests against an upstream API. *)

Documents == {"next", "qualifying", "driverStandings", "results"}

SeasonTable ==
    << [ season |-> 2024, round |-> 1, driver |-> "A", constructor |-> "T1",
         position |-> 1, grid |-> 2, points |-> 25, status |-> "Finished" ],
       [ season |-> 2024, round |-> 1, driver |-> "B", constructor |-> "T1",
         position |-> 2, grid |-> 1, points |-> 18, status |-> "+1 Lap" ] >>

QualifyingList ==
    << [driver |-> "A", constructor |-> "T1", position |-> 1],
       [driver |-> "B", constructor |-> "T2", position |-> 2] >>

StandingsList ==
    << [driver |-> "A", constructor |-> "T1", position |-> 1],
       [driver |-> "B", constructor |-> "T1", position |-> 2] >>

ApiStates ==
    [ next : {<<>>} \cup {<<[season |-> 2024, round |-> r, raceName |-> "GP"]>> : r \in {1, 2}},
      qualifying : {<<>>, <<[QualifyingResults |-> <<>>]>>,
                    <<[QualifyingResults |-> QualifyingList]>>},
      driverStandings : {<<>>, <<[DriverStandings |-> <<>>]>>,
                         <<[DriverStandings |-> StandingsList]>>} ]

(* What a client puts in an entry: a driver (with or without a constructor *)
(* of its own choosing) and a grid value.                                  *)
PayloadDrivers ==
    { [driver |-> "A", constructor |-> "Rogue"],
      [driver |-> " B", constructor |-> ""],
      [driver |-> "X", constructor |-> ""] }

PayloadGrids == {JInt(1), JFloat(37, 10), JBool(TRUE), JStr("abc"), JNull}

PayloadRows ==
    {[driver |-> d.driver, constructor |-> d.constructor, grid |-> g] :
        d \in PayloadDrivers, g \in PayloadGrids}

Payloads == UNION {[1..n -> PayloadRows] : n \in 0..MaxEntries}


(* The season's results so far: none before round 1. *)
ResultsBefore(a) ==
    IF a.next # <<>> /\ a.next[1].round = 1 THEN <<>> ELSE SeasonTable

InitService ==
    /\ api \in ApiStates
    /\ results = ResultsBefore(api)
    /\ req = NoReq
    /\ reply = NoReply
    /\ built = NoBuild
    /\ script = InitScript

PredictNextRace ==
    /\ req = NoReq
    /\ \E down \in SUBSET Documents :
         \E o \in predict_next_race(api, results, down) :
            /\ req' = [handler |-> "predict_next_race", user_rows |-> <<>>]
            /\ reply' = o
    /\ UNCHANGED <<api, results, built, script>>

PredictNextRaceWithGrid ==
    /\ req = NoReq
    /\ \E user_rows \in Payloads, down \in SUBSET Documents :
         \E o \in predict_next_race_with_grid(api, results, user_rows, down) :
            /\ req' = [handler |-> "predict_next_race_with_grid", user_rows |-> user_rows]
            /\ reply' = o
    /\ UNCHANGED <<api, results, built, script>>

NextRoster ==
    /\ req = NoReq
    /\ \E down \in SUBSET Documents :
         \E o \in next_roster(api, down) :
            /\ req' = [handler |-> "next_roster", user_rows |-> <<>>]
            /\ reply' = o
    /\ UNCHANGED <<api, results, built, script>>

(* The response has gone out; the service keeps nothing of the request. *)
Respond ==
    /\ req # NoReq
    /\ req' = NoReq
    /\ reply' = NoReply
    /\ UNCHANGED <<api, results, built, script>>

NextService == PredictNextRace \/ PredictNextRaceWithGrid \/ NextRoster \/ Respond

SpecService == InitService /\ [][NextService]_vars

----------------------------------------------------------------------------
(* What the properties below compare the builders' output with, computed   *)
(* from the results table itself (which is in (season, round) order).      *)

(* The table's rows of a season whose column by is key, in rounds before R. *)
Earlier(season, by, key, R) ==
    {i \in 1..Len(results) :
        results[i].season = season /\ results[i][by] = key /\ results[i].round < R}

RECURSIVE SumPoints(_)
SumPoints(S) ==
    IF S = {} THEN 0
    ELSE LET i == CHOOSE x \in S : TRUE IN results[i].points + SumPoints(S \ {i})

MeanPoints(S) == Rat(SumPoints(S), Cardinality(S))

(* The rows of S of the (up to) 5 latest rounds. *)
MostRecent(S) ==
    {i \in S : Cardinality({j \in S : results[j].round > results[i].round}) < Window}

(* The means of points an average over rows of S alone can give. *)
MeansOver(S) == IF S = {} THEN {Zero} ELSE {MeanPoints(T) : T \in (SUBSET S) \ {{}}}

LatestRound(S) == CHOOSE r \in {results[i].round : i \in S} : \A i \in S : results[i].round <= r

DriverFeaturesZero(f) ==
    /\ f.drv_pts_to_date = Zero
    /\ f.drv_roll_pts_5 = Zero
    /\ f.drv_roll_pos_5 = Zero
    /\ f.drv_roll_dnf_5 = Zero

(* The rows the live builder's history holds. *)
LiveHistory == {i \in 1..Len(results) :
                  results[i].season = built.season /\ results[i].round < built.next_round}

(* C1: the live builder uses every result strictly before round R: for     *)
(* each entry, drv_pts_to_date is the sum of the driver's points over all  *)
(* rounds before R and drv_roll_pts_5 is the mean of the driver's points   *)
(* over the (up to) 5 most recent rounds before R.                         *)
C1_LiveUsesEveryPriorRound ==
    built.kind = "live" =>
        \A k \in 1..Len(built.out) :
            LET S == Earlier(built.season, "driver", built.grid_rows[k].driver,
                             built.next_round)
            IN  /\ built.out[k].drv_pts_to_date = Int2Rat(SumPoints(S))
                /\ S # {} => built.out[k].drv_roll_pts_5 = MeanPoints(MostRecent(S))

(* C2: in both builders, for a result row at round R, con_pts_to_date is   *)
(* the sum of the constructor's points in rounds strictly earlier than R   *)
(* and con_roll_pts_5 averages only results of rounds strictly earlier     *)
(* than R, also when the constructor has two drivers in round R.  (The     *)
(* live builder hands out the statistics of the constructor's latest       *)
(* row.)                                                                   *)
C2_ConstructorStatsFromEarlierRoundsOnly ==
    /\ built.kind = "offline" =>
          \A i \in 1..Len(built.out) :
              LET S == Earlier(results[i].season, "constructor", results[i].constructor,
                               results[i].round)
              IN  /\ built.out[i].con_pts_to_date = Int2Rat(SumPoints(S))
                  /\ built.out[i].con_roll_pts_5 \in MeansOver(S)
    /\ built.kind = "live" =>
          \A k \in 1..Len(built.out) :
              LET c == built.grid_rows[k].constructor
                  H == Earlier(built.season, "constructor", c, built.next_round)
              IN  H # {} =>
                    LET S == Earlier(built.season, "constructor", c, LatestRound(H))
                    IN  /\ built.out[k].con_pts_to_date = Int2Rat(SumPoints(S))
                        /\ built.out[k].con_roll_pts_5 \in MeansOver(S)

(* C10: a driver with no prior rounds in the season has all four driver    *)
(* features exactly 0: on the driver's first row of a season in the        *)
(* offline builder; in the live builder for an entry whose driver is       *)
(* absent from the non-empty history; and with an empty history, where     *)
(* the constructor features and round_norm are 0 too and driver,           *)
(* constructor and grid are the entry's own.                               *)
C10_NoPriorRoundsAllZero ==
    /\ built.kind = "offline" =>
          \A i \in 1..Len(built.out) :
              Earlier(results[i].season, "driver", results[i].driver, results[i].round) = {}
                  => DriverFeaturesZero(built.out[i])
    /\ built.kind = "live" =>
          \A k \in 1..Len(built.out) :
              LET g == built.grid_rows[k]
                  f == built.out[k]
              IN  /\ (LiveHistory # {} /\ \A i \in LiveHistory : results[i].driver # g.driver)
                        => DriverFeaturesZero(f)
                  /\ LiveHistory = {} =>
                        /\ DriverFeaturesZero(f)
                        /\ f.con_pts_to_date = Zero
                        /\ f.con_roll_pts_5 = Zero
                        /\ f.round_norm = Zero
                        /\ f.driver = g.driver
                        /\ f.constructor = g.constructor
                        /\ f.grid = g.grid

(* A new driver joins a constructor that has scored: the history is not    *)
(* empty, the entry's driver is absent from it, its constructor is not.    *)
C10_Witness ==
    /\ built.kind = "live"
    /\ LiveHistory # {}
    /\ \E k \in 1..Len(built.out) :
          /\ \A i \in LiveHistory : results[i].driver # built.grid_rows[k].driver
          /\ built.out[k].con_pts_to_date # Zero
          /\ DriverFeaturesZero(built.out[k])

----------------------------------------------------------------------------
(* What the properties of the service compare a reply with, read from the  *)
(* request, the API's documents and the outcome of the fetches.            *)

Handled(h) == req.handler = h

Fetched(url) == \E i \in 1..Len(reply.calls) : reply.calls[i].url = url

FetchFailed(url) ==
    \E i \in 1..Len(reply.calls) : reply.calls[i].url = url /\ ~reply.calls[i].ok

(* The API named an upcoming race and the handler got it. *)
MetaResolved == api.next # <<>> /\ Fetched("next") /\ ~FetchFailed("next")

(* The API reports no upcoming race, and the handler got that answer. *)
NoRaceReported == api.next = <<>> /\ Fetched("next") /\ ~FetchFailed("next")

QualifyingEmpty ==
    api.qualifying = <<>> \/ api.qualifying[1].QualifyingResults = <<>>

(* The rows the canonical map is to be built from: the qualifying results  *)
(* when they are fetchable and not empty, else the driver standings.       *)
CanonicalRows ==
    IF ~FetchFailed("qualifying") /\ ~QualifyingEmpty
    THEN api.qualifying[1].QualifyingResults
    ELSE IF ~FetchFailed("driverStandings") /\ api.driverStandings # <<>>
    THEN api.driverStandings[1].DriverStandings
    ELSE <<>>

CanonicalPairs ==
    {<<CanonicalRows[k].driver, CanonicalRows[k].constructor>> : k \in 1..Len(CanonicalRows)}

CanonicalDrivers == {CanonicalRows[k].driver : k \in 1..Len(CanonicalRows)}

(* The entries of the payload that name a driver outside the map. *)
Offending == {i \in 1..Len(req.user_rows) : strip(req.user_rows[i].driver) \notin CanonicalDrivers}

ErrorsAt(i, issue) ==
    {e \in 1..Len(reply.resp.errors) :
        reply.resp.errors[e].index = i - 1 /\ reply.resp.errors[e].issue = issue}

NothingPredicted ==
    /\ "predictions" \notin reply.resp.keys
    /\ ~Fetched("results")
    /\ reply.model_calls = 0

(* C3: predict_next_race_with_grid is all-or-nothing: with a next race and *)
(* a non-empty canonical map, a payload with at least one unknown driver   *)
(* gets a validation failure with one error per offending index (all of    *)
(* them), no predictions, no results fetch and no model call.              *)
C3_UnknownDriverFailsWholeRequest ==
    ( /\ Handled("predict_next_race_with_grid")
      /\ MetaResolved
      /\ CanonicalRows # <<>>
      /\ Offending # {} )
    => /\ ~reply.resp.raised
       /\ reply.resp.error = "validation_failed"
       /\ \A i \in Offending : Cardinality(ErrorsAt(i, "unknown_driver")) = 1
       /\ \A e \in 1..Len(reply.resp.errors) :
             Cardinality({x \in 1..Len(reply.resp.errors) :
                            reply.resp.errors[x].index = reply.resp.errors[e].index}) = 1
       /\ NothingPredicted

(* An unknown driver after a valid entry: the valid entry is not          *)
(* predicted.                                                              *)
C3_Witness ==
    /\ Handled("predict_next_race_with_grid")
    /\ MetaResolved
    /\ Len(req.user_rows) >= 2
    /\ 1 \notin Offending
    /\ req.user_rows[1].grid.t = "int"
    /\ Offending # {}
    /\ reply.resp.error = "validation_failed"
    /\ Len(reply.resp.errors) = Cardinality(Offending)

(* C4: every entry of a known driver whose grid value is not an integer    *)
(* (null, text, a fraction, a boolean) is an invalid_grid error at its     *)
(* index and the request fails; the value is never coerced and used.       *)
C4_NonIntegerGridRejected ==
    ( /\ Handled("predict_next_race_with_grid")
      /\ MetaResolved
      /\ CanonicalRows # <<>> )
    => \A i \in 1..Len(req.user_rows) :
          (i \notin Offending /\ req.user_rows[i].grid.t # "int")
              => /\ ErrorsAt(i, "invalid_grid") # {}
                 /\ reply.resp.error = "validation_failed"
                 /\ "predictions" \notin reply.resp.keys

(* The entries a prediction handler ranks, in input order. *)
InputEntries ==
    IF Handled("predict_next_race")
    THEN [k \in 1..Len(api.qualifying[1].QualifyingResults) |->
            [driver |-> api.qualifying[1].QualifyingResults[k].driver,
             grid |-> api.qualifying[1].QualifyingResults[k].position]]
    ELSE [k \in 1..Len(req.user_rows) |->
            [driver |-> strip(req.user_rows[k].driver),
             grid |-> py_int(req.user_rows[k].grid).v]]

HasPredictions ==
    /\ req.handler \in {"predict_next_race", "predict_next_race_with_grid"}
    /\ "predictions" \in reply.resp.keys
    /\ reply.resp.predictions # <<>>

Descending(preds) ==
    \A a, b \in 1..Len(preds) :
        a < b => preds[a].win_probability >= preds[b].win_probability

(* C5 as stated: the predictions are in non-increasing order of            *)
(* win_probability, and entries of equal win_probability keep the order    *)
(* they have in the input.                                                 *)
C5_RankedDescendingAndStable ==
    HasPredictions =>
        LET preds == reply.resp.predictions
            n == Len(preds)
        IN  /\ Descending(preds)
            /\ \E q \in Permutations(1..n) :
                  /\ \A m \in 1..n :
                        /\ preds[m].driver = InputEntries[q[m]].driver
                        /\ preds[m].grid = InputEntries[q[m]].grid
                  /\ \A a, b \in 1..n :
                        (a < b /\ preds[a].win_probability = preds[b].win_probability)
                            => q[a] < q[b]

(* C5, amended: the predictions of both handlers are in non-increasing     *)
(* order of the rounded win_probability (the order among equal             *)
(* probabilities is not fixed).                                            *)
C5_RankedDescending ==
    HasPredictions => Descending(reply.resp.predictions)

(* A ranking that had to reorder its input. *)
C5_Witness ==
    /\ HasPredictions
    /\ Len(reply.resp.predictions) >= 2
    /\ reply.resp.predictions[1].win_probability
          > reply.resp.predictions[Len(reply.resp.predictions)].win_probability
    /\ reply.resp.predictions[1].driver # InputEntries[1].driver

(* The response of predict_next_race that sends the caller to the roster   *)
(* and with-grid calls.                                                    *)
GridWanted ==
    /\ ~reply.resp.raised
    /\ reply.resp.keys = {"race", "message", "predictions"}
    /\ reply.resp.race.season = api.next[1].season
    /\ reply.resp.race.round = api.next[1].round
    /\ reply.resp.predictions = <<>>
    /\ reply.resp.message = QualifyingMessage

NoFeaturesNoModel == ~Fetched("results") /\ reply.model_calls = 0

(* C7 as stated: in predict_next_race, with the next race resolved, empty  *)
(* or unavailable qualifying results (no race in the table, an empty       *)
(* list, a failing fetch) give the response with the race, no predictions  *)
(* and the message, and no results fetch, features or model call.          *)
C7_NoQualifyingGivesGridWanted ==
    ( /\ Handled("predict_next_race")
      /\ MetaResolved
      /\ (QualifyingEmpty \/ FetchFailed("qualifying")) )
    => GridWanted /\ NoFeaturesNoModel

(* C7, amended: with the next race resolved, qualifying results that are   *)
(* fetched and empty (no race in the table, or an empty list) give that    *)
(* response; a failing qualifying fetch ends the handler with an uncaught  *)
(* exception; in both cases no results are fetched and the model is not    *)
(* called.                                                                 *)
C7_EmptyQualifyingGivesGridWanted ==
    ( /\ Handled("predict_next_race")
      /\ MetaResolved )
    => /\ (QualifyingEmpty /\ ~FetchFailed("qualifying"))
              => GridWanted /\ Fetched("qualifying") /\ NoFeaturesNoModel
       /\ FetchFailed("qualifying") => reply.resp.raised /\ NoFeaturesNoModel

(* Qualifying has not been run, the standings are there. *)
C7_Witness ==
    /\ Handled("predict_next_race")
    /\ MetaResolved
    /\ api.qualifying # <<>>
    /\ QualifyingEmpty
    /\ api.driverStandings # <<>>
    /\ api.driverStandings[1].DriverStandings # <<>>
    /\ GridWanted

(* C8: every prediction of predict_next_race_with_grid carries the         *)
(* constructor the canonical map gives its driver (the map of the          *)
(* qualifying results when they are fetchable and not empty, else of the   *)
(* standings), whatever constructor the entry held; driver and grid are    *)
(* the payload's.                                                          *)
C8_ConstructorFromCanonicalMap ==
    ( /\ Handled("predict_next_race_with_grid")
      /\ "predictions" \in reply.resp.keys )
    => /\ Len(reply.resp.predictions) = Len(req.user_rows)
       /\ \A m \in 1..Len(reply.resp.predictions) :
             /\ <<reply.resp.predictions[m].driver, reply.resp.predictions[m].constructor>>
                    \in CanonicalPairs
             /\ \E k \in 1..Len(req.user_rows) :
                   /\ reply.resp.predictions[m].driver = InputEntries[k].driver
                   /\ reply.resp.predictions[m].grid = InputEntries[k].grid

(* An entry came with a constructor of its own and was predicted, once     *)
(* from the standings' map.                                                *)
C8_Witness ==
    /\ Handled("predict_next_race_with_grid")
    /\ HasPredictions
    /\ FetchFailed("qualifying")
    /\ \E k \in 1..Len(req.user_rows) :
          /\ req.user_rows[k].constructor = "Rogue"
          /\ \E m \in 1..Len(reply.resp.predictions) :
                /\ reply.resp.predictions[m].driver = strip(req.user_rows[k].driver)
                /\ reply.resp.predictions[m].constructor # "Rogue"

(* C9: in predict_next_race, predict_next_race_with_grid and next_roster,  *)
(* when the API reports no upcoming race the handler answers "No upcoming  *)
(* race found" and stops: the next-race fetch is its only fetch, nothing   *)
(* is validated and the model is not called.                               *)
C9_NoUpcomingRaceStops ==
    ( /\ req.handler \in {"predict_next_race", "predict_next_race_with_grid", "next_roster"}
      /\ NoRaceReported )
    => /\ ~reply.resp.raised
       /\ reply.resp.error = "No upcoming race found"
       /\ reply.calls = <<[url |-> "next", ok |-> TRUE]>>
       /\ reply.resp.errors = <<>>
       /\ reply.resp.predictions = <<>>
       /\ "predictions" \notin reply.resp.keys
       /\ reply.model_calls = 0

(* No upcoming race, while a payload with a bad entry and a full roster    *)
(* are at hand.                                                            *)
C9_Witness ==
    /\ Handled("predict_next_race_with_grid")
    /\ NoRaceReported
    /\ api.qualifying # <<>>
    /\ ~QualifyingEmpty
    /\ \E i \in 1..Len(req.user_rows) : strip(req.user_rows[i].driver) = "X"
    /\ reply.resp.error = "No upcoming race found"

----------------------------------------------------------------------------
(* The fetcher script. *)

Ended == script.pc \in {"done", "crashed"}

Served == {k \in 1..Len(script.log) : script.log[k].outcome = "rows"}

(* C6: a failure while fetching one season (HTTP error status, connection  *)
(* error, timeout) never aborts the loop: when the script has ended every  *)
(* season of the range was tried once and all the seasons that were        *)
(* served are in the results CSV.                                          *)
C6_FailedSeasonNeverAborts ==
    Ended =>
        /\ script.pc = "done"
        /\ Len(script.log) = NumYears
        /\ \A k \in 1..NumYears : script.log[k].season = Years[k]
        /\ \A k \in Served : \E c \in 1..Len(script.csv) : script.csv[c] = script.log[k].season
        /\ Served # {} => script.written

====
